---- MODULE Spec2Model ----
(***************************************************************************)
(* Volume-profile core of app.py: the exchange tick table, the tick-grid   *)
(* generator, the even-split volume distributor, the POC summary and the   *)
(* download/analysis flow that gates them.                                 *)
(*                                                                         *)
(* Prices are integers counting 0.002 (a fifth of a cent), so that prices  *)
(* with more than two decimals exist and round(x, 2) is a real rounding:   *)
(* one cent is 5 units and no value lies half-way between two cents.       *)
(* Volumes and histogram values are exact rationals <<num, den>>.          *)
(***************************************************************************)
EXTENDS Integers, Sequences, FiniteSets, TLC

VARIABLES
    pc,          \* position of the modelled run
    low_price,   \* generate_tick_bins: parameter low_price
    high_price,  \* generate_tick_bins: parameter high_price
    df,          \* the bar series: sequence of [Low, High, Volume]
    edges,       \* the array generate_tick_bins returned (edges of the profile)
    vol_hist,    \* calculate_precise_volume_profile: vol_hist (rationals)
    i,           \* calculate_precise_volume_profile: loop index (bars done)
    start_idx,   \* local start_idx of the bar last processed (after clamping)
    end_idx,     \* local end_idx of the bar last processed (after clamping)
    num_bins,    \* local num_bins of the bar last processed
    max_idx,     \* create_chart_precise: max_idx
    poc,         \* create_chart_precise: poc (rational)
    user_input,  \* run flow: the ticker typed in (sequence of characters)
    targets,     \* smart_download: candidate symbols
    t,           \* smart_download: index of the candidate being tried
    feed,        \* what the data source answers for each candidate
    rows,        \* run flow: len(df) of the series handed to the chart, -1 if none
    valid_symbol,\* run flow: symbol returned by smart_download (<<>> for None)
    shown        \* run flow: what the status box / page finally shows

vars == <<pc, low_price, high_price, df, edges,
          vol_hist, i, start_idx, end_idx, num_bins, max_idx, poc,
          user_input, targets, t, feed, rows, valid_symbol, shown>>

gridVars == <<low_price, high_price>>
profVars == <<df, edges, vol_hist, i, start_idx, end_idx, num_bins, max_idx, poc>>
flowVars == <<user_input, targets, t, feed, rows, valid_symbol, shown>>

----------------------------------------------------------------------------
(* Units and arithmetic *)

\* A price given in cents, in model units (0.002 each).
Cents(c) == 5 * c

\* round(x, 2): the nearest whole cent (no ties exist in these units).
Round2(x) == ((x + 2) \div 5) * 5

Min(a, b) == IF a <= b THEN a ELSE b
Max(a, b) == IF a >= b THEN a ELSE b

RECURSIVE GCD(_, _)
GCD(a, b) == IF b = 0 THEN a ELSE GCD(b, a % b)

Abs(x) == IF x < 0 THEN -x ELSE x

\* The rational n/d (d > 0) in lowest terms.
Rat(n, d) ==
    LET g == GCD(Abs(n), d)
    IN  IF n = 0 THEN <<0, 1>> ELSE <<n \div g, d \div g>>

RatAdd(a, b) == Rat(a[1] * b[2] + b[1] * a[2], a[2] * b[2])
RatLess(a, b) == a[1] * b[2] < b[1] * a[2]
RatLeq(a, b) == a[1] * b[2] <= b[1] * a[2]

RECURSIVE RatSum(_)
RatSum(s) == IF s = <<>> THEN <<0, 1>> ELSE RatAdd(s[1], RatSum(Tail(s)))

----------------------------------------------------------------------------
(* Tick table *)

\* Variant: the thresholds taken inclusively (price <= 10, ...).
get_tw_tick_inclusive(price) ==
    IF price <= Cents(1000) THEN Cents(1)
    ELSE IF price <= Cents(5000) THEN Cents(5)
    ELSE IF price <= Cents(10000) THEN Cents(10)
    ELSE IF price <= Cents(50000) THEN Cents(50)
    ELSE IF price <= Cents(100000) THEN Cents(100)
    ELSE Cents(500)

get_tw_tick(price) ==
    IF price < Cents(1000) THEN Cents(1)
    ELSE IF price < Cents(5000) THEN Cents(5)
    ELSE IF price < Cents(10000) THEN Cents(10)
    ELSE IF price < Cents(50000) THEN Cents(50)
    ELSE IF price < Cents(100000) THEN Cents(100)
    ELSE Cents(500)

----------------------------------------------------------------------------
(* generate_tick_bins *)

max_steps == 10000

\* Iterations the model is prepared to follow; the loop's own condition has to
\* stop it before they run out.
Fuel == 16384

\* Variant: the loop without its step cap.
LoopCondition_nocap(cur, st, hi) == cur < hi

\* Variant: the loop stops one tick short of high_price.
LoopCondition_short(cur, st, hi) ==
    cur + get_tw_tick(cur) < hi /\ st < max_steps

\* while current < high_price and steps < max_steps
LoopCondition(cur, st, hi) == cur < hi /\ st < max_steps

\* tick = get_tw_tick(current); current = round(current + tick, 2)
NextBin(cur) == Round2(cur + get_tw_tick(cur))

\* The values the loop appends in at most n further iterations, entered with
\* current = cur and steps = st.  One iteration is the case n = 1; a longer
\* run is its first half followed, if that half ran to its end, by the rest
\* (the halving only keeps the evaluation shallow).
RECURSIVE Iterate(_, _, _, _)
Iterate(cur, st, hi, n) ==
    IF n = 0 THEN <<>>
    ELSE IF n = 1
    THEN IF LoopCondition(cur, st, hi) THEN <<NextBin(cur)>> ELSE <<>>
    ELSE LET h == n \div 2
             a == Iterate(cur, st, hi, h)
         IN  IF Len(a) < h THEN a ELSE a \o Iterate(a[h], st + h, hi, n - h)

\* bins = [low_price], then the loop; return np.array(bins)
generate_tick_bins(lo, hi) == <<lo>> \o Iterate(lo, 0, hi, Fuel)

\* generate_tick_bins called on its own with (low_price, high_price)
GridCall ==
    /\ pc = "grid_call"
    /\ edges' = generate_tick_bins(low_price, high_price)
    /\ pc' = "grid_done"
    /\ UNCHANGED gridVars
    /\ UNCHANGED <<df, vol_hist, i, start_idx, end_idx, num_bins, max_idx, poc>>
    /\ UNCHANGED flowVars

----------------------------------------------------------------------------
(* calculate_precise_volume_profile *)

Bar(l, h, v) == [Low |-> l, High |-> h, Volume |-> v]

RECURSIVE SeqMin(_)
SeqMin(s) == IF Len(s) = 1 THEN s[1] ELSE Min(s[1], SeqMin(Tail(s)))

RECURSIVE SeqMax(_)
SeqMax(s) == IF Len(s) = 1 THEN s[1] ELSE Max(s[1], SeqMax(Tail(s)))

\* df['Low'].min() and df['High'].max()
LowMin(d) == SeqMin([k \in 1..Len(d) |-> d[k].Low])
HighMax(d) == SeqMax([k \in 1..Len(d) |-> d[k].High])

\* np.searchsorted(a, v, side='right') on a sorted array: the number of
\* elements <= v; side='left': the number of elements < v.
searchsorted_right(a, v) == Cardinality({ j \in 1..Len(a) : a[j] <= v })
searchsorted_left(a, v) == Cardinality({ j \in 1..Len(a) : a[j] < v })

\* h[s:e] += x with Python's 0-based, end-exclusive slice, which numpy cuts
\* to the array: positions at or past len(h) do not exist and get nothing.
SliceAdd(h, s, e, x) ==
    [b \in 1..Len(h) |-> IF s <= b - 1 /\ b - 1 < e THEN RatAdd(h[b], x) ELSE h[b]]

\* start_idx after max(0, start_idx)
ClampStart(a, low) == Max(0, searchsorted_right(a, low) - 1)

\* Variant: the end index searched with side='right'.
ClampEnd_right(a, nb, s, high) ==
    LET e == Min(nb, searchsorted_right(a, high))
    IN  IF e <= s THEN s + 1 ELSE e

\* end_idx after min(len(vol_hist), end_idx) and the forcing end = start + 1
ClampEnd(a, nb, s, high) ==
    LET e == Min(nb, searchsorted_left(a, high))
    IN  IF e <= s THEN s + 1 ELSE e

\* min_p, max_p, and the call edges = generate_tick_bins(min_p, max_p)
ProfileCall ==
    /\ pc = "profile_call"
    /\ low_price' = LowMin(df)
    /\ high_price' = HighMax(df)
    /\ edges' = generate_tick_bins(low_price', high_price')
    /\ pc' = "grid_done"
    /\ UNCHANGED <<df, vol_hist, i, start_idx, end_idx, num_bins, max_idx, poc>>
    /\ UNCHANGED flowVars

\* vol_hist = np.zeros(len(edges) - 1)
HistInit ==
    /\ pc = "grid_done"
    /\ vol_hist' = [b \in 1..(Len(edges) - 1) |-> <<0, 1>>]
    /\ i' = 0
    /\ pc' = "bar_loop"
    /\ UNCHANGED gridVars
    /\ UNCHANGED <<df, edges, start_idx, end_idx, num_bins, max_idx, poc>>
    /\ UNCHANGED flowVars

\* one iteration of: for i in range(len(df))
BarStep ==
    /\ pc = "bar_loop"
    /\ i < Len(df)
    /\ LET day_low == df[i + 1].Low
           day_high == df[i + 1].High
           day_vol == df[i + 1].Volume
           s == ClampStart(edges, day_low)
           e == ClampEnd(edges, Len(vol_hist), s, day_high)
       IN  IF day_vol = 0
           THEN UNCHANGED <<vol_hist, start_idx, end_idx, num_bins>>
           ELSE /\ start_idx' = s
                /\ end_idx' = e
                /\ num_bins' = e - s
                /\ vol_hist' = IF e - s > 0
                               THEN SliceAdd(vol_hist, s, e, Rat(day_vol, e - s))
                               ELSE vol_hist
    /\ i' = i + 1
    /\ UNCHANGED pc
    /\ UNCHANGED gridVars
    /\ UNCHANGED <<df, edges, max_idx, poc>>
    /\ UNCHANGED flowVars

\* return vol_hist, edges
ProfileReturn ==
    /\ pc = "bar_loop"
    /\ i = Len(df)
    /\ pc' = "summarize"
    /\ UNCHANGED gridVars
    /\ UNCHANGED profVars
    /\ UNCHANGED flowVars

----------------------------------------------------------------------------
(* create_chart_precise: the POC *)

\* np.argmax scans left to right and keeps the first maximum (0-based result).
RECURSIVE ArgmaxFrom(_, _, _)
ArgmaxFrom(h, j, best) ==
    IF j > Len(h) THEN best - 1
    ELSE IF RatLess(h[best], h[j]) THEN ArgmaxFrom(h, j + 1, j)
    ELSE ArgmaxFrom(h, j + 1, best)

\* Variant: the scan keeps the last maximum.
RECURSIVE ArgmaxLastFrom(_, _, _)
ArgmaxLastFrom(h, j, best) ==
    IF j > Len(h) THEN best - 1
    ELSE IF RatLeq(h[best], h[j]) THEN ArgmaxLastFrom(h, j + 1, j)
    ELSE ArgmaxLastFrom(h, j + 1, best)

argmax_last(h) == ArgmaxLastFrom(h, 2, 1)

argmax(h) == ArgmaxFrom(h, 2, 1)

\* (edges[max_idx] + edges[max_idx+1]) / 2
Midpoint(a, m) == Rat(a[m + 1] + a[m + 2], 2)

\* max_idx = np.argmax(hist); poc = ...; np.argmax raises on an empty array
Summarize ==
    /\ pc = "summarize"
    /\ IF vol_hist = <<>>
       THEN /\ pc' = "error"
            /\ UNCHANGED <<max_idx, poc>>
       ELSE /\ max_idx' = argmax(vol_hist)
            /\ poc' = Midpoint(edges, max_idx')
            /\ pc' = "done"
    /\ UNCHANGED gridVars
    /\ UNCHANGED <<df, edges, vol_hist, i, start_idx, end_idx, num_bins>>
    /\ UNCHANGED flowVars

----------------------------------------------------------------------------
(* Specification of the profile computation on a bar series *)

MaxBars == 2

\* Prices between 10.00 and 10.10 (tick 0.05), one of them off the cent.
PricesA == { Cents(1000), Cents(1002) + 1, Cents(1005), Cents(1010) }
\* Prices across the threshold at 10 (ticks 0.01 and 0.05), up to four buckets.
PricesB == { Cents(999), Cents(1000), Cents(1005), Cents(1015) }
\* Prices between 510 and 512 (tick 1.0).
PricesC == { Cents(51000), Cents(51050), Cents(51100), Cents(51200) }

ValidBars(P, V) ==
    { br \in { Bar(l, h, v) : l \in P, h \in P, v \in V } : br.Low <= br.High }

\* Bars that break the bar invariants: high < low, or a negative volume.
InvertedBars(P, V) ==
    { br \in { Bar(l, h, v) : l \in P, h \in P, v \in V } : br.High < br.Low }

BarsA ==
    ValidBars(PricesA, {0, 100}) \cup InvertedBars(PricesA, {100})
    \cup ValidBars({ Cents(1000), Cents(1005) }, {-100})
BarsB == ValidBars(PricesB, {100, 200})
BarsC == ValidBars(PricesC, {100, 200})
\* The single price 100 with volume 1000.
BarsD == ValidBars({ Cents(10000) }, {1000})

SeriesInputs ==
    UNION { [1..n -> B] : n \in 1..MaxBars, B \in {BarsA, BarsB, BarsC, BarsD} }

NoProfile ==
    /\ edges = <<>> /\ vol_hist = <<>> /\ i = 0
    /\ start_idx = 0 /\ end_idx = 0 /\ num_bins = 0
    /\ max_idx = -1 /\ poc = <<0, 1>>

NoFlow ==
    /\ user_input = <<>> /\ targets = <<>> /\ t = 0 /\ feed = <<>>
    /\ rows = -1 /\ valid_symbol = <<>> /\ shown = "none"

Init ==
    /\ pc = "profile_call"
    /\ df \in SeriesInputs
    /\ low_price = 0 /\ high_price = 0
    /\ NoProfile
    /\ NoFlow

Next ==
    \/ ProfileCall
    \/ HistInit
    \/ BarStep
    \/ ProfileReturn
    \/ Summarize

Spec == Init /\ [][Next]_vars

----------------------------------------------------------------------------
(* Specification of generate_tick_bins called on its own *)

MaxSpan == 3

\* Low prices around every threshold of the tick table, on and off the cent.
GridLows ==
    { 1, Cents(1), Cents(998), Cents(999) + 2, Cents(1000), Cents(1001) + 1,
      Cents(4995), Cents(5000), Cents(9990), Cents(49950), Cents(99900),
      Cents(100000) }

\* High prices: below the low, equal to it, a few ticks above it, on and off
\* the grid.
GridHighs(lo) ==
    { lo - 1 } \cup
    { lo + k * get_tw_tick(lo) + d : k \in 0..MaxSpan, d \in {0, 1, 3} }

\* Ranges wide enough for the step cap: more than 10000 steps are needed.
CappedPairs ==
    { <<Cents(100000), Cents(100000) + (max_steps + 1) * Cents(500)>>,
      <<Cents(50000), Cents(6000000)>> }

GridInputs ==
    UNION { { <<lo, hi>> : hi \in GridHighs(lo) } : lo \in GridLows }
    \cup CappedPairs

InitGrid ==
    /\ pc = "grid_call"
    /\ \E p \in GridInputs : low_price = p[1] /\ high_price = p[2]
    /\ df = <<>>
    /\ NoProfile
    /\ NoFlow

NextGrid == GridCall

SpecGrid == InitGrid /\ [][NextGrid]_vars

----------------------------------------------------------------------------
(* Properties of the tick table and the grid (under SpecGrid) *)

Last(a) == a[Len(a)]

\* The prices of a state the tick table is looked up for.
ProbePrices ==
    { x \in { low_price, high_price } \cup { edges[k] : k \in DOMAIN edges } : x > 0 }

\* C8: get_tw_tick maps price < 10 to 0.01, < 50 to 0.05, < 100 to 0.1,
\* < 500 to 0.5, < 1000 to 1.0 and anything else to 5.0; the tick is strictly
\* positive and non-decreasing in the price.
C8_TickTable ==
    /\ \A x \in ProbePrices :
          /\ get_tw_tick(x) > 0
          /\ x < Cents(1000) => get_tw_tick(x) = Cents(1)
          /\ (Cents(1000) <= x /\ x < Cents(5000)) => get_tw_tick(x) = Cents(5)
          /\ (Cents(5000) <= x /\ x < Cents(10000)) => get_tw_tick(x) = Cents(10)
          /\ (Cents(10000) <= x /\ x < Cents(50000)) => get_tw_tick(x) = Cents(50)
          /\ (Cents(50000) <= x /\ x < Cents(100000)) => get_tw_tick(x) = Cents(100)
          /\ Cents(100000) <= x => get_tw_tick(x) = Cents(500)
    /\ \A k \in 1..(Len(edges) - 1) :
          edges[k] <= edges[k + 1] => get_tw_tick(edges[k]) <= get_tw_tick(edges[k + 1])
    /\ \A x \in { y \in { low_price, high_price } : y > 0 } :
          \A k \in DOMAIN edges :
              /\ x <= edges[k] => get_tw_tick(x) <= get_tw_tick(edges[k])
              /\ edges[k] <= x => get_tw_tick(edges[k]) <= get_tw_tick(x)

\* A grid that crosses the threshold at 1000: ticks 1.0 and then 5.0.
C8_Witness ==
    /\ pc = "grid_done"
    /\ \E k \in 1..(Len(edges) - 1) :
          get_tw_tick(edges[k]) = Cents(100) /\ get_tw_tick(edges[k + 1]) = Cents(500)

\* C4: the loop of generate_tick_bins ends after at most max_steps
\* iterations; the returned sequence starts at low, is strictly increasing
\* and has at most max_steps + 1 edges; every iteration was entered below
\* high, and the loop ended because high was reached or the cap was hit, in
\* which case the grid built so far is what is returned.
C4_GridTermination ==
    pc = "grid_done" =>
        /\ Len(edges) >= 1
        /\ Len(edges) - 1 <= max_steps
        /\ Len(edges) <= max_steps + 1
        /\ edges[1] = low_price
        /\ \A k \in 1..(Len(edges) - 1) : edges[k] < edges[k + 1]
        /\ \A k \in 1..(Len(edges) - 1) : edges[k] < high_price
        /\ Last(edges) >= high_price \/ Len(edges) - 1 = max_steps

\* The cap is hit before high is reached, and a grid is returned.
C4_Witness ==
    /\ pc = "grid_done"
    /\ Len(edges) = max_steps + 1
    /\ Last(edges) < high_price

\* C3 as stated: for every pair of positive prices low <= high, also when the
\* range is wide enough for the step cap, edges[0] <= low and
\* edges[-1] >= high.
C3_GridCoversRange ==
    (pc = "grid_done" /\ 0 < low_price /\ low_price <= high_price) =>
        /\ edges[1] <= low_price
        /\ Last(edges) >= high_price

\* C3 (amended): edges[0] <= low always, and edges[-1] >= high whenever the
\* loop ended before the step cap (fewer than max_steps iterations).
C3_GridCoversUnlessCapped ==
    (pc = "grid_done" /\ 0 < low_price /\ low_price <= high_price) =>
        /\ edges[1] <= low_price
        /\ Len(edges) - 1 < max_steps => Last(edges) >= high_price

\* An uncapped grid over a real range whose last edge passes high.
C3_Witness ==
    /\ pc = "grid_done"
    /\ 0 < low_price /\ low_price < high_price
    /\ Len(edges) - 1 < max_steps
    /\ Len(edges) >= 3
    /\ Last(edges) > high_price

----------------------------------------------------------------------------
(* Properties of the profile computation (under Spec) *)

AfterLoop == pc \in {"summarize", "done", "error"}
InLoop == pc \in {"bar_loop", "summarize", "done", "error"}

ValidBar(br) == br.Low <= br.High /\ br.Volume >= 0
AllValid(d) == \A k \in DOMAIN d : ValidBar(d[k])
AllPositive(d) == \A k \in DOMAIN d : d[k].Low <= d[k].High /\ d[k].Volume > 0

RECURSIVE TotalVolume(_)
TotalVolume(d) == IF d = <<>> THEN 0 ELSE d[1].Volume + TotalVolume(Tail(d))

GridCoversBars ==
    \A k \in DOMAIN df : edges[1] <= df[k].Low /\ df[k].High <= Last(edges)

\* C1 as stated: when every bar has volume > 0 and low <= high and the grid
\* covers every bar's [low, high], the histogram sums to the sum of the bars'
\* volumes, bars lying on the grid's last edge included.
C1_Conservation ==
    (AfterLoop /\ AllPositive(df) /\ GridCoversBars) =>
        RatSum(vol_hist) = <<TotalVolume(df), 1>>

\* C2 as stated: a series whose minimum Low equals its maximum High gets a
\* grid of at least two edges, a histogram that sums to the volume, and a
\* POC equal to that single price; the computation does not fail.
C2_Degenerate ==
    (pc \in {"done", "error"} /\ AllPositive(df) /\ LowMin(df) = HighMax(df)) =>
        /\ Len(edges) >= 2
        /\ RatSum(vol_hist) = <<TotalVolume(df), 1>>
        /\ pc = "done"
        /\ poc = <<LowMin(df), 1>>

\* 0-based index of the last edge <= x (-1 when there is none).
LastEdgeAtMost(a, x) ==
    IF \E k \in DOMAIN a : a[k] <= x
    THEN (CHOOSE k \in DOMAIN a : a[k] <= x /\ \A j \in DOMAIN a : a[j] <= x => j <= k) - 1
    ELSE -1

\* 0-based index of the first edge >= x (the number of edges when there is none).
FirstEdgeAtLeast(a, x) ==
    IF \E k \in DOMAIN a : a[k] >= x
    THEN (CHOOSE k \in DOMAIN a : a[k] >= x /\ \A j \in DOMAIN a : a[j] >= x => j >= k) - 1
    ELSE Len(a)

\* The even split of one bar: volume / k on each of the k buckets s..e-1.
EvenSplit(h, a, br) ==
    LET s == LastEdgeAtMost(a, br.Low)
        e == FirstEdgeAtLeast(a, br.High)
    IN  [b \in 1..Len(h) |->
            IF s <= b - 1 /\ b - 1 < e /\ br.Volume > 0
            THEN RatAdd(h[b], Rat(br.Volume, e - s))
            ELSE h[b]]

\* The even split, with a span that is empty (low = high on an edge) taken
\* as the one bucket that starts at that edge.
EvenSplitForced(h, a, br) ==
    LET s == LastEdgeAtMost(a, br.Low)
        e0 == FirstEdgeAtLeast(a, br.High)
        e == IF e0 = s THEN s + 1 ELSE e0
    IN  [b \in 1..Len(h) |->
            IF s <= b - 1 /\ b - 1 < e /\ br.Volume > 0
            THEN RatAdd(h[b], Rat(br.Volume, e - s))
            ELSE h[b]]

Zeros(n) == [b \in 1..n |-> <<0, 1>>]

RECURSIVE RuleHist(_, _, _, _)
RuleHist(d, n, a, forced) ==
    IF n = 0 THEN Zeros(Len(a) - 1)
    ELSE LET h == RuleHist(d, n - 1, a, forced)
         IN  IF forced THEN EvenSplitForced(h, a, d[n]) ELSE EvenSplit(h, a, d[n])

\* Bars {510, 511, 100} and {510.5, 512, 200}: the tick grid is
\* [510, 511, 512], the buckets of the grid [10, 11, 12] moved up by 500.
ScenarioBars ==
    << Bar(Cents(51000), Cents(51100), 100), Bar(Cents(51050), Cents(51200), 200) >>

ScenarioResult ==
    (pc = "done" /\ df = ScenarioBars) =>
        /\ edges = <<Cents(51000), Cents(51100), Cents(51200)>>
        /\ vol_hist = << <<200, 1>>, <<100, 1>> >>
        /\ max_idx = 0
        /\ poc = <<Cents(51050), 1>>

C6_SpanClamped ==
    (InLoop /\ AllValid(df) /\ i >= 1 /\ Len(vol_hist) >= 1) =>
        (df[i].Volume > 0 =>
            /\ 0 <= start_idx /\ start_idx <= Len(vol_hist) - 1
            /\ 1 <= end_idx /\ end_idx <= Len(vol_hist)
            /\ start_idx < end_idx)

\* C7: for a non-empty histogram the POC index is the lowest index holding
\* the maximum, and poc is the midpoint of that bucket's edges, inside the
\* grid; only an empty histogram fails.
C7_PocFirstMaximum ==
    /\ pc = "done" =>
        /\ vol_hist # <<>>
        /\ max_idx \in 0..(Len(vol_hist) - 1)
        /\ \A b \in DOMAIN vol_hist : RatLeq(vol_hist[b], vol_hist[max_idx + 1])
        /\ \A b \in 1..max_idx : RatLess(vol_hist[b], vol_hist[max_idx + 1])
        /\ poc[1] * 2 = (edges[max_idx + 1] + edges[max_idx + 2]) * poc[2]
        /\ RatLeq(<<edges[1], 1>>, poc) /\ RatLeq(poc, <<Last(edges), 1>>)
    /\ pc = "error" => vol_hist = <<>>

\* Two buckets tie for the maximum, which is positive.
C7_Witness ==
    /\ pc = "done"
    /\ \E b \in DOMAIN vol_hist : b > max_idx + 1 /\ vol_hist[b] = vol_hist[max_idx + 1]
    /\ RatLess(<<0, 1>>, vol_hist[max_idx + 1])

\* C9 as stated: a bar with high < low or a negative volume never
\* contributes to the histogram: as long as only such bars were processed the
\* histogram is all zero, and no histogram value is ever negative.
C9_InvalidBarsRejected ==
    InLoop =>
        /\ (\A k \in 1..i : ~ValidBar(df[k])) => vol_hist = Zeros(Len(vol_hist))
        /\ \A b \in DOMAIN vol_hist : RatLeq(<<0, 1>>, vol_hist[b])

----------------------------------------------------------------------------
(* smart_download and the run flow *)

\* Characters a ticker is typed with; strings are sequences of them.
Chars == { "2", ".", "T", "W", "t" }
Digits == { "2" }

\* str.upper()
upper(str) == [k \in 1..Len(str) |-> IF str[k] = "t" THEN "T" ELSE str[k]]

\* str.isdigit(): non-empty and every character a digit
isdigit(str) == str # <<>> /\ \A k \in 1..Len(str) : str[k] \in Digits

\* sub in str
Contains(sub, str) ==
    \E k \in 1..(Len(str) - Len(sub) + 1) : SubSeq(str, k, k + Len(sub) - 1) = sub

DotTW == <<".", "T", "W">>
DotTWO == <<".", "T", "W", "O">>

\* the candidate list smart_download builds from the upper-cased ticker
Targets(str) ==
    LET first == IF Contains(DotTW, str) \/ Contains(DotTWO, str)
                 THEN <<str>>
                 ELSE <<str \o DotTW, str \o DotTWO>>
    IN  IF ~isdigit(str) /\ ~Contains(DotTW, str) THEN <<str>> ELSE first

min_rows == 10

\* Variant: ten rows are taken as enough (>= instead of >).
Qualifies_atleast(o) == ~o.raises /\ ~o.empty /\ o.rows >= min_rows

\* if not df.empty and len(df) > 10, reached only when nothing raised
Qualifies(o) == ~o.raises /\ ~o.empty /\ o.rows > min_rows

\* if not user_input: status_box.error(...)  else: smart_download(...)
RunButton ==
    /\ pc = "run"
    /\ IF user_input = <<>>
       THEN /\ shown' = "enter_symbol"
            /\ pc' = "end"
       ELSE /\ pc' = "download_call"
            /\ UNCHANGED shown
    /\ UNCHANGED <<user_input, targets, t, feed, rows, valid_symbol>>
    /\ UNCHANGED gridVars
    /\ UNCHANGED profVars

\* input_ticker = input_ticker.upper(); targets = ...
DownloadStart ==
    /\ pc = "download_call"
    /\ targets' = Targets(upper(user_input))
    /\ t' = 1
    /\ pc' = "download_loop"
    /\ UNCHANGED <<user_input, feed, rows, valid_symbol, shown>>
    /\ UNCHANGED gridVars
    /\ UNCHANGED profVars

\* one iteration of: for t in targets (try / except: continue)
TryTarget ==
    /\ pc = "download_loop"
    /\ t <= Len(targets)
    /\ IF Qualifies(feed[t])
       THEN /\ rows' = feed[t].rows
            /\ valid_symbol' = targets[t]
            /\ pc' = "got_df"
            /\ UNCHANGED t
       ELSE /\ t' = t + 1
            /\ UNCHANGED <<rows, valid_symbol, pc>>
    /\ UNCHANGED <<user_input, targets, feed, shown>>
    /\ UNCHANGED gridVars
    /\ UNCHANGED profVars

\* return None, None; then if df is None: st.error(...)
DownloadNone ==
    /\ pc = "download_loop"
    /\ t > Len(targets)
    /\ rows' = -1
    /\ valid_symbol' = <<>>
    /\ shown' = "no_data"
    /\ pc' = "end"
    /\ UNCHANGED <<user_input, targets, t, feed>>
    /\ UNCHANGED gridVars
    /\ UNCHANGED profVars

\* else: create_chart_precise(df, valid_symbol) is called inside try
CreateChart ==
    /\ pc = "got_df"
    /\ pc' = "chart"
    /\ UNCHANGED flowVars
    /\ UNCHANGED gridVars
    /\ UNCHANGED profVars

\* the call returns (success) or raises (except Exception: "運算錯誤")
ChartEnd ==
    /\ pc = "chart"
    /\ \E raised \in BOOLEAN :
          shown' = IF raised THEN "calc_error" ELSE "analysis_done"
    /\ pc' = "end"
    /\ UNCHANGED <<user_input, targets, t, feed, rows, valid_symbol>>
    /\ UNCHANGED gridVars
    /\ UNCHANGED profVars

----------------------------------------------------------------------------
(* Specification of the run flow *)

MaxTickerLen == 3
MaxRows == 12

TickerInputs == UNION { [1..n -> Chars] : n \in 0..MaxTickerLen }

\* What one download attempt can do: raise somewhere inside the try body, or
\* hand back a frame with some number of rows (a frame without rows, or
\* without columns, is empty).
RowCounts == { 0, 1, min_rows, min_rows + 1, MaxRows }
Outcomes ==
    { o \in [raises : BOOLEAN, empty : BOOLEAN, rows : RowCounts] :
        /\ o.raises => (o.rows = MaxRows /\ ~o.empty)
        /\ o.rows = 0 => o.empty
        /\ o.empty => o.rows \in {0, MaxRows} }

InitFlow ==
    /\ pc = "run"
    /\ user_input \in TickerInputs
    /\ feed \in [1..2 -> Outcomes]
    /\ targets = <<>> /\ t = 0
    /\ rows = -1 /\ valid_symbol = <<>> /\ shown = "none"
    /\ low_price = 0 /\ high_price = 0
    /\ df = <<>>
    /\ NoProfile

NextFlow ==
    \/ RunButton
    \/ DownloadStart
    \/ TryTarget
    \/ DownloadNone
    \/ CreateChart
    \/ ChartEnd

SpecFlow == InitFlow /\ [][NextFlow]_vars

----------------------------------------------------------------------------
(* Properties of the run flow (under SpecFlow) *)

\* A download the gate lets through: nothing raised, not empty, more than
\* 10 rows.
Enough(o) == ~o.raises /\ ~o.empty /\ o.rows > 10

ChartStarted == pc = "chart" \/ shown \in {"analysis_done", "calc_error"}

\* C10: create_chart_precise is started only on a non-empty series of more
\* than 10 bars; smart_download tries its candidates in order, skips one
\* whose download is empty, has 10 or fewer rows or raises, returns the first
\* that qualifies, and returns (None, None) when none does, in which case the
\* flow shows an explicit failure and computes no profile.
C10_InsufficientDataGate ==
    /\ (pc = "got_df" \/ ChartStarted) =>
          /\ rows > 10
          /\ t \in 1..Len(targets)
          /\ valid_symbol = targets[t]
          /\ Enough(feed[t]) /\ feed[t].rows = rows
          /\ \A j \in 1..(t - 1) : ~Enough(feed[j])
    /\ pc = "download_loop" => \A j \in 1..(t - 1) : ~Enough(feed[j])
    /\ (pc = "end" /\ user_input # <<>> /\ \A k \in 1..Len(targets) : ~Enough(feed[k])) =>
          /\ shown = "no_data"
          /\ rows = -1 /\ valid_symbol = <<>>
          /\ ~ChartStarted
    /\ (pc = "end" /\ shown = "no_data") => \A k \in 1..Len(targets) : ~Enough(feed[k])
    /\ pc = "end" => shown \in {"enter_symbol", "no_data", "analysis_done", "calc_error"}

\* The first candidate was skipped with exactly 10 rows and the second one
\* is charted.
C10_Witness ==
    /\ pc = "chart"
    /\ t = 2
    /\ feed[1].rows = 10 /\ ~feed[1].raises /\ ~feed[1].empty
====
